---- MODULE Spec2Model ----
(***************************************************************************)
(* A model of three parts of the workbench:                                *)
(*   - ModeServiceImpl, the registry of lazily instantiated modes;         *)
(*   - InstallAction / UninstallAction, the "install in PATH" actions;     *)
(*   - DebugHoverWidget, the debug hover content widget.                   *)
(* Each part has its own specification (SpecMode, SpecCli, SpecHover)      *)
(* over the shared variables; the parts do not interact.                   *)
(*                                                                         *)
(* TPromise is the WinJS promise: a then-callback registered on a promise  *)
(* that is already complete runs synchronously, inside the call that       *)
(* registers it.  An asynchronous completion is an action of its own.      *)
(***************************************************************************)
EXTENDS Integers, Sequences, FiniteSets, TLC

\* ------------------------------------------------------------------ bounds
MaxListLen == 2      \* entries in a comma-separated list of mimetypes or ids
MaxObjs == 3         \* mode objects ever constructed
MaxPending == 1      \* callbacks waiting for pluginService.onReady()
MaxCount == 2        \* the counters of _createMode / activateByEvent calls saturate here

\* ------------------------------------------------- the language registry
\* LanguageExtensions (vs/editor/common/modes/languageExtensionPoint) holds
\* the registered modes; the registry is fixed while the service runs.
ModeIds == {"plaintext", "html"}
Tokens == {"text/html", "text/plain", "x"}
LanguageNames == {"HTML", "Plain Text", "nope"}
Filenames == {"a.html", "a.txt", "a.zzz"}
Supports == {"tokenizationSupport", "suggestSupport"}
null == "null"

RECURSIVE SeqsUpTo(_, _)
SeqsUpTo(S, n) ==
    IF n = 0 THEN {<<>>}
    ELSE LET shorter == SeqsUpTo(S, n - 1)
         IN shorter \cup {Append(q, x) : q \in {r \in shorter : Len(r) = n - 1}, x \in S}

\* a comma-separated string, as the list of its entries
Inputs == SeqsUpTo(Tokens, MaxListLen)

mime2LanguageId(tok) ==
    CASE tok = "text/html" -> "html"
      [] tok = "text/plain" -> "plaintext"
      [] OTHER -> tok

RECURSIVE SelectIds(_)
SelectIds(q) ==
    IF q = <<>> THEN <<>>
    ELSE IF Head(q) \in ModeIds THEN <<Head(q)>> \o SelectIds(Tail(q))
    ELSE SelectIds(Tail(q))

\* split(','), map mimetype -> mode id, keep the known mode ids
extractModeIds(input) ==
    SelectIds([i \in 1..Len(input) |-> mime2LanguageId(input[i])])

getModeIdsFromLanguageName(name) ==
    CASE name = "HTML" -> <<"html">>
      [] name = "Plain Text" -> <<"plaintext">>
      [] OTHER -> <<>>

getModeIdsFromFilenameOrFirstLine(filename) ==
    CASE filename = "a.html" -> <<"html">>
      [] filename = "a.txt" -> <<"plaintext">>
      [] OTHER -> <<>>

isRegisteredMode(tok) == mime2LanguageId(tok) \in ModeIds

\* ------------------------------------------------------- configurations
\* An options object over ConfigKeys; value 0 is "the key is absent".
ConfigKeys == {"tabSize"}
ConfigValues == {1, 2}
Configs == [ConfigKeys -> ConfigValues \cup {0}]
EmptyConfig == [k \in ConfigKeys |-> 0]

\* Objects.mixin(Objects.clone(destination), source): source's keys overwrite
mixin(destination, source) ==
    [k \in ConfigKeys |-> IF source[k] # 0 THEN source[k] ELSE destination[k]]

\* Objects.equals
equals(one, other) == one = other

VARIABLES
    \* ---- ModeServiceImpl
    compatModes,          \* the mode ids LanguageExtensions.getCompatMode knows
    ready,                \* pluginService.onReady() is complete
    pending,              \* the then-callbacks registered on onReady(), in order:
                          \* the operation that registered each (the argument its
                          \* closure holds is drawn when the callback reads it)
    _instantiatedModes,   \* mode id -> mode object (0: no entry)
    _activationPromises,  \* mode id -> "absent" | "pending" | "rejected"
    _frankensteinModes,   \* mode id -> FrankensteinMode object (0: no entry)
    _config,              \* mode id -> this._config[modeId] || {}
    stage,                \* mode id -> where the promise chain of _createMode is
    event,                \* mode id -> state of activateByEvent('onLanguage:' + id)
    created,              \* mode id -> number of times _createMode was entered
    fired,                \* mode id -> number of activateByEvent calls
    waiters,              \* mode id -> callers waiting on _activationPromises[id]
    objs,                 \* the mode objects constructed, by object number
    delivered,            \* the modes callers' promises have resolved to
    rejected,             \* the callers whose promise was rejected
    calls,                \* configSupport.configure calls made by the last operation
    ret,                  \* the last operation and what it returned
    instantiateModeRequests, \* the mode ids sent to ModeServiceWorkerHelper.instantiateMode
    unannounced,          \* the mode ids _createMode was entered for before that
    \* ---- InstallAction, UninstallAction and the file system they act on
    isAvailable,          \* fs.existsSync(source)
    binDir,               \* /usr/local/bin: "missing" | "readonly" | "writable"
    target,               \* /usr/local/bin/<applicationName>: "absent", a link
                          \* to "source", a link to "other", or a plain "file"
    profiles,             \* the three shell profile files, by position
    run,                  \* the run() in flight or last completed
    offer,                \* the action the last message offers the user
    helper,               \* DarwinCLIHelper: "new" | "offered" | "done"
    \* ---- DebugHoverWidget
    isVisible,
    showAtPosition,       \* a line number (0: null)
    highlightDecorations, \* the number of decoration ids held
    treeHidden,           \* treeContainer.hidden
    valueHidden,          \* valueContainer.hidden
    treeInput,            \* tree.getInput()
    treeCount,            \* the visible elements tree.getNavigator() walks
    treeHeight,           \* treeContainer.style.height, in pixels (0: not set)
    requests,             \* the positions of the getExpression promises not complete
    settingInput,         \* the tree.setInput promises not complete
    lastDoShow,           \* the position given to the last doShow (0: none yet)
    effects,              \* the editor calls made by the last operation
    hret,                 \* the last widget operation and what it returned
    \* ---- DebugHoverWidget.getExpression
    xpc,                  \* "idle" | "evaluate" | "getScopes" | "done" | "rejected"
    namesToFind,          \* the dotted path, a sequence of names
    scopes,               \* what getScopes resolved with, flattened
    variables,            \* the matches pushed so far, in order
    asked,                \* the scopes whose getChildren was called
    waiting,              \* the scopes whose getChildren is not complete
    xret                  \* what the promise of getExpression resolved with

modeVars == <<compatModes, ready, pending, _instantiatedModes, _activationPromises,
              _frankensteinModes, _config, stage, event, created, fired, waiters,
              objs, delivered, rejected, calls, ret, instantiateModeRequests,
              unannounced>>

cliVars == <<isAvailable, binDir, target, profiles, run, offer, helper>>

hoverVars == <<isVisible, showAtPosition, highlightDecorations, treeHidden, valueHidden,
               treeInput, treeCount, treeHeight, requests, settingInput, lastDoShow,
               effects, hret>>

exprVars == <<xpc, namesToFind, scopes, variables, asked, waiting, xret>>

vars == <<modeVars, cliVars, hoverVars, exprVars>>

\* ------------------------------------------------- ModeServiceImpl: state
\* The service's state as one record, so that a method that calls other
\* methods is the composition of their effects.
Svc ==
    [compat |-> compatModes, ready |-> ready, pending |-> pending,
     inst |-> _instantiatedModes, act |-> _activationPromises,
     frank |-> _frankensteinModes, config |-> _config, stage |-> stage,
     event |-> event, created |-> created, fired |-> fired, waiters |-> waiters,
     objs |-> objs, delivered |-> delivered, rejected |-> rejected, calls |-> 0,
     worker |-> instantiateModeRequests, unannounced |-> unannounced]

SetSvc(s) ==
    /\ compatModes' = s.compat
    /\ ready' = s.ready
    /\ pending' = s.pending
    /\ _instantiatedModes' = s.inst
    /\ _activationPromises' = s.act
    /\ _frankensteinModes' = s.frank
    /\ _config' = s.config
    /\ stage' = s.stage
    /\ event' = s.event
    /\ created' = s.created
    /\ fired' = s.fired
    /\ waiters' = s.waiters
    /\ objs' = s.objs
    /\ delivered' = s.delivered
    /\ rejected' = s.rejected
    /\ calls' = s.calls
    /\ instantiateModeRequests' = s.worker
    /\ unannounced' = s.unannounced

\* a caller waiting for a mode: a getOrCreateMode* or getMode call ("call";
\* fallback: its input resolved to no mode id) or a registerModeSupport
\* call ("register", with the support's name)
Waiter(kind, fallback, support) == [kind |-> kind, fallback |-> fallback, support |-> support]

Bump(n) == IF n < MaxCount THEN n + 1 ELSE n

\* What the promises of the plugin host and the thread service turn out to
\* be when _createMode registers its callbacks on them:
\*   event     activateByEvent: "pending", or complete ("resolved", "failed")
\*   instance  createInstance of the compat mode, likewise
\*   cfg, reg  the compat mode has a configSupport / a registerSupport method
Choice(ev, instance, cfg, reg) == [event |-> ev, instance |-> instance, cfg |-> cfg, reg |-> reg]

NoChoice == Choice("pending", "pending", FALSE, FALSE)

InstanceChoices ==
    {Choice("resolved", "pending", FALSE, FALSE), Choice("resolved", "failed", FALSE, FALSE)}
      \cup {Choice("resolved", "created", cfg, reg) : cfg \in BOOLEAN, reg \in BOOLEAN}

\* the choices that make a difference to creating the mode of modeId in s
Choices(s, modeId) ==
    IF s.inst[modeId] # 0 \/ s.act[modeId] # "absent" THEN {NoChoice}
    ELSE IF modeId \in s.compat
    THEN {NoChoice, Choice("failed", "pending", FALSE, FALSE)} \cup InstanceChoices
    ELSE {Choice(ev, "pending", FALSE, FALSE) : ev \in {"pending", "resolved", "failed"}}

\* --------------------------------------------- ModeServiceImpl: methods
getConfigurationForMode(s, modeId) == s.config[modeId]

getModeIdLast(input) ==
    LET modeIds == extractModeIds(input)
    IN IF Len(modeIds) > 0 THEN modeIds[Len(modeIds)] ELSE null

getModeId(input) ==
    LET modeIds == extractModeIds(input)
    IN IF Len(modeIds) > 0 THEN modeIds[1] ELSE null

lookupIncludingPending(s, input) ==
    LET modeIds == extractModeIds(input)
    IN [i \in 1..Len(modeIds) |->
            [modeId |-> modeIds[i],
             isInstantiated |-> s.inst[modeIds[i]] # 0 \/ s.act[modeIds[i]] = "pending"]]

lookup(s, input) ==
    LET modeIds == extractModeIds(input)
    IN [i \in 1..Len(modeIds) |->
            [modeId |-> modeIds[i], isInstantiated |-> s.inst[modeIds[i]] # 0]]

getModeIdByLanguageName(languageName) ==
    LET modeIds == getModeIdsFromLanguageName(languageName)
    IN IF Len(modeIds) > 0 THEN modeIds[1] ELSE null

getModeIdByFilenameOrFirstLine(filename) ==
    LET modeIds == getModeIdsFromFilenameOrFirstLine(filename)
    IN IF Len(modeIds) > 0 THEN modeIds[1] ELSE null

\* mode.configSupport.configure(options) on object o
configure(s, o, options) ==
    [s EXCEPT !.objs[o].configured = <<options>>, !.calls = @ + 1]

resolveWaitersUnlessRegisterSupport(s, modeId, ws) ==
    LET mode == s.inst[modeId]
        regs == {w.support : w \in {x \in ws : x.kind = "register"}}
    IN [s EXCEPT
          !.objs[mode].supports = IF ~s.objs[mode].hasRegisterSupport THEN @ \cup regs ELSE @,
          !.delivered = @ \cup {[fallback |-> w.fallback, id |-> modeId,
                                 obj |-> mode] : w \in ws}]

\* the then-callbacks of the callers ws run with the mode of modeId;
\* a registerModeSupport caller's callback is lines 275-282
resolveWaiters(s, modeId, ws) ==
    LET mode == s.inst[modeId]
        regs == {w.support : w \in {x \in ws : x.kind = "register"}}
    IN [s EXCEPT
          !.objs[mode].supports = IF s.objs[mode].hasRegisterSupport THEN @ \cup regs ELSE @,
          !.delivered = @ \cup {[fallback |-> w.fallback, id |-> modeId,
                                 obj |-> mode] : w \in ws}]

rejectWaiters(s, modeId, ws) ==
    [s EXCEPT !.rejected = @ \cup {[fallback |-> w.fallback, id |-> modeId] : w \in ws}]

finishCreateKeepingPromise(s, modeId, mode) ==
    LET s1 == [s EXCEPT !.inst[modeId] = mode, !.stage[modeId] = "none",
                        !.waiters[modeId] = {}]
    IN resolveWaiters(s1, modeId, s.waiters[modeId])

\* _getOrCreateMode, the callback of lines 225-229, and its then(c, e)
finishCreate(s, modeId, mode) ==
    LET s1 == [s EXCEPT !.inst[modeId] = mode, !.act[modeId] = "absent",
                        !.stage[modeId] = "none", !.waiters[modeId] = {}]
    IN resolveWaiters(s1, modeId, s.waiters[modeId])

rejectCreate(s, modeId) ==
    LET s1 == [s EXCEPT !.act[modeId] = "rejected", !.stage[modeId] = "none",
                        !.waiters[modeId] = {}]
    IN rejectWaiters(s1, modeId, s.waiters[modeId])

\* _threadService.createInstance: a new object
createInstance(s, kind, modeId, hasConfigSupport, hasRegisterSupport) ==
    [s EXCEPT !.objs = Append(@, [kind |-> kind, id |-> modeId,
                                  hasConfigSupport |-> hasConfigSupport,
                                  hasRegisterSupport |-> hasRegisterSupport,
                                  supports |-> {}, configured |-> <<>>])]

createCompatModeUnconfigured(s, modeId, c) ==
    createInstance(s, "compat", modeId, c.cfg, c.reg)

\* _createMode, lines 241-248: the compat mode is created, then configured
createCompatMode(s, modeId, c) ==
    LET s1 == createInstance(s, "compat", modeId, c.cfg, c.reg)
        compatMode == Len(s1.objs)
    IN IF s1.objs[compatMode].hasConfigSupport
       THEN configure(s1, compatMode, getConfigurationForMode(s1, modeId))
       ELSE s1

\* _createMode, lines 240-249 from the point where activateByEvent is
\* complete: the state, and the outcome of the promise _createMode returned
afterActivation(s, modeId, c) ==
    CASE c.instance = "pending" ->
            [s |-> [s EXCEPT !.stage[modeId] = "instantiating"], out |-> "pending", mode |-> 0]
      [] c.instance = "created" ->
            LET s1 == createCompatMode([s EXCEPT !.stage[modeId] = "none"], modeId, c)
            IN [s |-> s1, out |-> "resolved", mode |-> Len(s1.objs)]
      [] OTHER ->
            [s |-> [s EXCEPT !.stage[modeId] = "none"], out |-> "rejected", mode |-> 0]

_getOrCreateFrankensteinMode(s, modeId) ==
    IF s.frank[modeId] = 0
    THEN LET s1 == createInstance(s, "frankenstein", modeId, FALSE, TRUE)
         IN [s1 EXCEPT !.frank[modeId] = Len(s1.objs)]
    ELSE s

_createModeWithoutWaiting(s, modeId, c) ==
    LET s0 == [s EXCEPT !.created[modeId] = Bump(@)]
        s1 == [s0 EXCEPT !.fired[modeId] = Bump(@), !.event[modeId] = c.event]
    IN IF modeId \in s.compat
       THEN afterActivation(s1, modeId, c)
       ELSE LET s2 == _getOrCreateFrankensteinMode(s1, modeId)
            IN [s |-> s2, out |-> "resolved", mode |-> s2.frank[modeId]]

_createMode(s, modeId, c) ==
    LET s0 == [s EXCEPT !.created[modeId] = Bump(@),
                        !.unannounced = IF modeId \in s.worker THEN @ ELSE @ \cup {modeId}]
        s1 == [s0 EXCEPT !.fired[modeId] = Bump(@), !.event[modeId] = c.event]
    IN IF modeId \in s.compat
       THEN CASE c.event = "pending" ->
                   [s |-> [s1 EXCEPT !.stage[modeId] = "activating"],
                    out |-> "pending", mode |-> 0]
              [] c.event = "resolved" -> afterActivation(s1, modeId, c)
              [] OTHER -> [s |-> s1, out |-> "rejected", mode |-> 0]
       ELSE LET s2 == _getOrCreateFrankensteinMode(s0, modeId)
                s3 == [s2 EXCEPT !.fired[modeId] = Bump(@), !.event[modeId] = c.event]
            IN [s |-> s3, out |-> "resolved", mode |-> s3.frank[modeId]]

\* this._getModeServiceWorkerHelper().instantiateMode(modeId)
instantiateMode(s, modeId) == [s EXCEPT !.worker = @ \cup {modeId}]

MainThread_createModeOnly(s, modeId, c) == _createMode(s, modeId, c)

\* MainThreadModeServiceImpl._createMode, which _getOrCreateMode calls
MainThread_createMode(s, modeId, c) == _createMode(instantiateMode(s, modeId), modeId, c)

\* the promise of _createMode has completed with r.out: lines 225-229
settle(r, modeId) ==
    CASE r.out = "resolved" -> finishCreate(r.s, modeId, r.mode)
      [] r.out = "rejected" -> rejectCreate(r.s, modeId)
      [] OTHER -> r.s

_getOrCreateModeIgnoringPending(s, modeId, w, c) ==
    IF s.inst[modeId] # 0 THEN resolveWaiters(s, modeId, {w})
    ELSE IF s.act[modeId] = "rejected" THEN rejectWaiters(s, modeId, {w})
    ELSE LET s1 == [s EXCEPT !.act[modeId] = "pending", !.waiters[modeId] = @ \cup {w}]
         IN settle(MainThread_createMode(s1, modeId, c), modeId)

\* w is the caller: its then-callback is registered on the promise returned
_getOrCreateMode(s, modeId, w, c) ==
    IF s.inst[modeId] # 0 THEN resolveWaiters(s, modeId, {w})
    ELSE IF s.act[modeId] = "pending"
         THEN [s EXCEPT !.waiters[modeId] = @ \cup {w}]
    ELSE IF s.act[modeId] = "rejected" THEN rejectWaiters(s, modeId, {w})
    ELSE LET s1 == [s EXCEPT !.act[modeId] = "pending", !.waiters[modeId] = {w}]
         IN settle(MainThread_createMode(s1, modeId, c), modeId)

OrFirstMode(modeId) == IF modeId = null THEN "html" ELSE modeId

\* modeId || 'plaintext'
OrPlainText(modeId) == IF modeId = null THEN "plaintext" ELSE modeId

\* the mode id a getOrCreateMode* call (or getMode, through getOrCreateMode)
\* resolves its argument to
resolveCall(p) ==
    CASE p.op = "getOrCreateModeByLanguageName" -> getModeIdByLanguageName(p.arg)
      [] p.op = "getOrCreateModeByFilenameOrFirstLine" -> getModeIdByFilenameOrFirstLine(p.arg)
      [] OTHER -> getModeId(p.arg)

Target(p) == OrPlainText(resolveCall(p))

\* the callback of getOrCreateMode* registered on onReady(): lines 190-194
onReadyCallback(s, p, c) ==
    _getOrCreateMode(s, Target(p), Waiter("call", resolveCall(p) = null, "-"), c)

\* getOrCreateMode, getOrCreateModeByLanguageName,
\* getOrCreateModeByFilenameOrFirstLine; p.op says which
getOrCreate(s, p, c) ==
    IF s.ready THEN onReadyCallback(s, p, c)
    ELSE [s EXCEPT !.pending = Append(@, p.op)]

RECURSIVE FirstInstantiated(_, _, _)
FirstInstantiated(s, modeIds, i) ==
    IF i > Len(modeIds) THEN 0
    ELSE IF s.inst[modeIds[i]] # 0 THEN i
    ELSE FirstInstantiated(s, modeIds, i + 1)

\* getMode: the state and the mode returned (0: null or undefined)
getMode(s, input, c) ==
    LET modeIds == extractModeIds(input)
        i == FirstInstantiated(s, modeIds, 1)
        isPlainText == \E j \in 1..Len(modeIds) : modeIds[j] = "plaintext"
    IN IF i # 0 THEN [s |-> s, mode |-> s.inst[modeIds[i]]]
       ELSE IF isPlainText
       THEN LET p == [op |-> "getMode", arg |-> input]
                s1 == getOrCreate(s, p, c)
            IN [s |-> s1, mode |-> IF s.ready THEN s1.inst[Target(p)] ELSE 0]
       ELSE [s |-> s, mode |-> 0]

configureModeByIdAlways(s, modeId, options, c) ==
    LET s1 == [s EXCEPT !.config[modeId] = mixin(s.config[modeId], options)]
        g == getMode(s1, <<modeId>>, c)
    IN IF g.mode # 0 /\ g.s.objs[g.mode].hasConfigSupport
       THEN configure(g.s, g.mode, getConfigurationForMode(g.s, modeId))
       ELSE g.s

configureModeById(s, modeId, options, c) ==
    LET previousOptions == s.config[modeId]
        newOptions == mixin(previousOptions, options)
    IN IF equals(previousOptions, newOptions) THEN s
       ELSE LET s1 == [s EXCEPT !.config[modeId] = newOptions]
                g == getMode(s1, <<modeId>>, c)
            IN IF g.mode # 0 /\ g.s.objs[g.mode].hasConfigSupport
               THEN configure(g.s, g.mode, getConfigurationForMode(g.s, modeId))
               ELSE g.s

registerModeSupport(s, modeId, support, c) ==
    _getOrCreateMode(s, modeId, Waiter("register", FALSE, support), c)

\* MainThreadModeServiceImpl.registerModeSupport
MainThread_registerModeSupport(s, modeId, support, c) ==
    registerModeSupport(instantiateMode(s, modeId), modeId, support, c)

\* --------------------------------------------- ModeServiceImpl: actions
\* the model's bounds on what an operation may leave behind
Within(s) == Len(s.objs) <= MaxObjs /\ Len(s.pending) <= MaxPending

ModeInit ==
    /\ compatModes \in SUBSET ModeIds
    /\ ready = FALSE
    /\ pending = <<>>
    /\ _instantiatedModes = [m \in ModeIds |-> 0]
    /\ _activationPromises = [m \in ModeIds |-> "absent"]
    /\ _frankensteinModes = [m \in ModeIds |-> 0]
    /\ _config = [m \in ModeIds |-> EmptyConfig]
    /\ stage = [m \in ModeIds |-> "none"]
    /\ event = [m \in ModeIds |-> "none"]
    /\ created = [m \in ModeIds |-> 0]
    /\ fired = [m \in ModeIds |-> 0]
    /\ waiters = [m \in ModeIds |-> {}]
    /\ objs = <<>>
    /\ delivered = {}
    /\ rejected = {}
    /\ calls = 0
    /\ ret = [op |-> "new"]
    /\ instantiateModeRequests = {}
    /\ unannounced = {}

\* the calls of operation op that register a callback on onReady()
CallsOf(op) ==
    LET args == CASE op = "getOrCreateModeByLanguageName" -> LanguageNames
                  [] op = "getOrCreateModeByFilenameOrFirstLine" -> Filenames
                  [] op = "getMode" ->
                        {i \in Inputs : \E j \in 1..Len(extractModeIds(i)) :
                                            extractModeIds(i)[j] = "plaintext"}
                  [] OTHER -> Inputs
    IN {[op |-> op, arg |-> a] : a \in args}

\* the states the callbacks of ops, run in order, can lead to from s
RECURSIVE runCallbacks(_, _)
runCallbacks(s, ops) ==
    IF ops = <<>> THEN {s}
    ELSE UNION {UNION {runCallbacks(onReadyCallback(s, p, c), Tail(ops)) :
                           c \in Choices(s, Target(p))} : p \in CallsOf(Head(ops))}

\* pluginService.onReady() completes: the callbacks registered on it run
PluginsReady ==
    /\ ~ready
    /\ \E s \in runCallbacks([Svc EXCEPT !.ready = TRUE, !.pending = <<>>], pending) :
          Within(s) /\ SetSvc(s)
    /\ ret' = [op |-> "event"]

GetOrCreateCall(p) ==
    /\ \E c \in Choices(Svc, Target(p)) :
          LET s == getOrCreate(Svc, p, c)
          IN Within(s) /\ SetSvc(s)
    /\ ret' = [op |-> "promise"]

GetOrCreateMode(input) ==
    GetOrCreateCall([op |-> "getOrCreateMode", arg |-> input])

GetOrCreateModeByLanguageName(languageName) ==
    GetOrCreateCall([op |-> "getOrCreateModeByLanguageName", arg |-> languageName])

GetOrCreateModeByFilenameOrFirstLine(filename) ==
    GetOrCreateCall([op |-> "getOrCreateModeByFilenameOrFirstLine", arg |-> filename])

GetMode(input) ==
    \E c \in Choices(Svc, OrPlainText(getModeId(input))) :
       LET g == getMode(Svc, input, c)
       IN /\ Within(g.s)
          /\ SetSvc(g.s)
          /\ ret' = [op |-> "getMode", ids |-> extractModeIds(input), val |-> g.mode,
                      began |-> g.s.created # created]

RegisterModeSupport(modeId, support) ==
    /\ \E c \in Choices(Svc, modeId) :
          LET s == MainThread_registerModeSupport(Svc, modeId, support, c)
          IN Within(s) /\ SetSvc(s)
    /\ ret' = [op |-> "registerModeSupport", arg |-> <<modeId, support>>]

ConfigureModeById(modeId, options) ==
    /\ \E c \in Choices(Svc, modeId) :
          LET s == configureModeById(Svc, modeId, options, c)
          IN Within(s) /\ SetSvc(s)
    /\ LET again == ret.op = "configureModeById" /\ ret.arg = <<modeId, options>>
       IN ret' = [op |-> "configureModeById", arg |-> <<modeId, options>>,
                  again |-> again, before |-> IF again THEN calls ELSE 0]

\* activateByEvent('onLanguage:' + modeId) completes; for a compat mode the
\* chain goes on to createInstance (lines 240-243), which may complete at once
ActivationResolved(modeId) ==
    /\ event[modeId] = "pending"
    /\ LET s0 == [Svc EXCEPT !.event[modeId] = "resolved"]
       IN IF stage[modeId] = "activating"
          THEN \E c \in InstanceChoices :
                  LET s == settle(afterActivation(s0, modeId, c), modeId)
                  IN Within(s) /\ SetSvc(s)
          ELSE SetSvc(s0)
    /\ ret' = [op |-> "event"]

\* activateByEvent fails: a compat mode's promise is rejected; for a
\* Frankenstein mode the error goes to Errors.onUnexpectedError
ActivationFailed(modeId) ==
    /\ event[modeId] = "pending"
    /\ LET s0 == [Svc EXCEPT !.event[modeId] = "failed"]
       IN SetSvc(IF stage[modeId] = "activating" THEN rejectCreate(s0, modeId) ELSE s0)
    /\ ret' = [op |-> "event"]

\* _threadService.createInstance(compatModeAsyncDescriptor, ...) completes
InstanceCreated(modeId) ==
    /\ stage[modeId] = "instantiating"
    /\ \E c \in {x \in InstanceChoices : x.instance = "created"} :
          LET s == settle(afterActivation(Svc, modeId, c), modeId)
          IN Within(s) /\ SetSvc(s)
    /\ ret' = [op |-> "event"]

InstanceFailed(modeId) ==
    /\ stage[modeId] = "instantiating"
    /\ SetSvc(rejectCreate(Svc, modeId))
    /\ ret' = [op |-> "event"]

\* ---- the query operations
QueryOps == {"getModeId", "lookup", "getConfigurationForMode", "isRegisteredMode",
             "getModeIdByLanguageName", "getModeIdByFilenameOrFirstLine"}

Query(op, val) ==
    /\ ret' = [op |-> op, val |-> val]
    /\ SetSvc(Svc)

GetModeId(input) ==
    /\ ret' = [op |-> "getModeId", arg |-> input, val |-> getModeId(input)]
    /\ SetSvc(Svc)

Lookup(input) == Query("lookup", lookup(Svc, input))

GetConfigurationForMode(modeId) ==
    Query("getConfigurationForMode", getConfigurationForMode(Svc, modeId))

IsRegisteredMode(tok) == Query("isRegisteredMode", isRegisteredMode(tok))

GetModeIdByLanguageName(languageName) ==
    Query("getModeIdByLanguageName", getModeIdByLanguageName(languageName))

GetModeIdByFilenameOrFirstLine(filename) ==
    Query("getModeIdByFilenameOrFirstLine", getModeIdByFilenameOrFirstLine(filename))

\* ---- the specifications of the mode service
Completions ==
    \/ PluginsReady
    \/ \E m \in ModeIds : ActivationResolved(m)
    \/ \E m \in ModeIds : ActivationFailed(m)
    \/ \E m \in ModeIds : InstanceCreated(m)
    \/ \E m \in ModeIds : InstanceFailed(m)

\* ------------------------------------------- InstallAction, UninstallAction
\* A profile file is "absent", or its content is "clean" or "legacy" (it
\* contains the darwinBundleIdentifier), or reading it fails with an error
\* other than ENOENT ("unreadable").
ProfileFiles == <<"~/.bash_profile", "~/.bashrc", "~/.zshrc">>
FileContents == {"absent", "clean", "legacy", "unreadable"}

ignoreNothing(code, result) == result

\* ignore(code): an error with that code becomes a success
ignore(code, result) == IF result = code THEN "ok" ELSE result

\* pfs.unlink(target) and pfs.symlink(source, target) on the file system
unlinkResult ==
    IF binDir = "missing" \/ target = "absent" THEN "ENOENT"
    ELSE IF binDir = "readonly" THEN "EACCES"
    ELSE "ok"

symlinkResult ==
    IF binDir = "missing" THEN "ENOENT"
    ELSE IF binDir = "readonly" THEN "EACCES"
    ELSE IF target # "absent" THEN "EEXIST"
    ELSE "ok"

\* any file system call may also fail for a reason of its own
Outcomes(natural) == {natural, "EIO"}

RECURSIVE LegacyFrom(_, _)
LegacyFrom(contents, i) ==
    IF i > Len(contents) THEN <<>>
    ELSE (IF contents[i] = "legacy" THEN <<ProfileFiles[i]>> ELSE <<>>)
            \o LegacyFrom(contents, i + 1)

\* pfs.readFile(name, 'utf8') of a file with that content
readFile(content) ==
    CASE content = "absent" -> "ENOENT"
      [] content = "unreadable" -> "EACCES"
      [] OTHER -> "ok"

readOrReject(content) == readFile(content)

readOrEmpty(content) == ignore("ENOENT", readFile(content))

\* checkLegacy: readOrEmpty of the three files, joined, then reduced
checkLegacy(contents) ==
    IF \E i \in 1..Len(contents) : readOrEmpty(contents[i]) # "ok"
    THEN [out |-> "rejected", files |-> <<>>]
    ELSE [out |-> "resolved", files |-> LegacyFrom(contents, 1)]

\* pfs.lstat(target), then pfs.readlink(target): the error, if any
readlinkError(lstat) ==
    IF lstat # "ok" THEN lstat
    ELSE IF target = "file" THEN "EINVAL"
    ELSE "ok"

isInstalledAnyLink(lstat) ==
    LET err == readlinkError(lstat)
    IN IF err = "ok" THEN [out |-> "resolved", val |-> TRUE]
       ELSE IF ignore("ENOENT", err) = "ok" THEN [out |-> "resolved", val |-> FALSE]
       ELSE [out |-> err, val |-> FALSE]

\* isInstalled: lstat, readlink, link === source; ENOENT: not installed.
\* lstat is what pfs.lstat came to
isInstalled(lstat) ==
    LET err == readlinkError(lstat)
    IN IF err = "ok" THEN [out |-> "resolved", val |-> target = "source"]
       ELSE IF ignore("ENOENT", err) = "ok" THEN [out |-> "resolved", val |-> FALSE]
       ELSE [out |-> err, val |-> FALSE]

NoRun ==
    [kind |-> "none", by |-> "-", pc |-> "idle", attempt |-> 0, files |-> <<>>,
     unlinks |-> 0, symlinks |-> 0, success |-> 0, warned |-> "-", err |-> "ok"]

Finished == {"idle", "resolved", "rejected"}

CliInit ==
    /\ isAvailable \in BOOLEAN
    /\ binDir \in {"missing", "readonly", "writable"}
    /\ target \in {"absent", "source", "other", "file"}
    /\ binDir = "missing" => target = "absent"
    /\ profiles \in [1..Len(ProfileFiles) -> FileContents]
    /\ run = NoRun
    /\ offer = "none"
    /\ helper = "new"

\* the error err reached the handler of lines 329-336 (attempt 1) or the
\* caller of run (attempt 2)
afterError(r, err) ==
    IF r.attempt = 1 /\ err \in {"EACCES", "ENOENT"}
    THEN [r EXCEPT !.pc = "createBinFolder"]
    ELSE [r EXCEPT !.pc = "rejected", !.err = err]

\* InstallAction.run is called: by the user (the registered action), by the
\* 'Retry' action, or by the 'Update Now' action of DarwinCLIHelper.  The
\* actions are registered only when the source binary is available.
StartInstall(by) ==
    /\ isAvailable
    /\ run.pc \in Finished
    /\ by = "retry" => offer = "retry"
    /\ by = "update" => helper = "offered"
    /\ run' = [NoRun EXCEPT !.kind = "install", !.by = by, !.pc = "checkLegacy"]
    /\ offer' = IF by = "retry" THEN "none" ELSE offer
    /\ helper' = IF by = "update" THEN "done" ELSE helper
    /\ UNCHANGED <<isAvailable, binDir, target, profiles>>

InstallCheckLegacyUnlessOne ==
    /\ run.kind = "install" /\ run.pc = "checkLegacy"
    /\ LET r == checkLegacy(profiles)
       IN IF r.out = "rejected"
          THEN run' = [run EXCEPT !.pc = "rejected", !.err = "EACCES"] /\ offer' = offer
          ELSE IF Len(r.files) > 1
          THEN /\ run' = [run EXCEPT !.files = r.files, !.warned = r.files[1],
                                     !.pc = "resolved"]
               /\ offer' = "edit"
          ELSE run' = [run EXCEPT !.files = r.files, !.pc = "isInstalled"] /\ offer' = offer
    /\ UNCHANGED <<isAvailable, binDir, target, profiles, helper>>

\* run, lines 293-316: checkLegacy has completed
InstallCheckLegacy ==
    /\ run.kind = "install" /\ run.pc = "checkLegacy"
    /\ LET r == checkLegacy(profiles)
       IN IF r.out = "rejected"
          THEN run' = [run EXCEPT !.pc = "rejected", !.err = "EACCES"] /\ offer' = offer
          ELSE IF Len(r.files) > 0
          THEN /\ run' = [run EXCEPT !.files = r.files, !.warned = r.files[1],
                                     !.pc = "resolved"]
               /\ offer' = "edit"
          ELSE run' = [run EXCEPT !.files = r.files, !.pc = "isInstalled"] /\ offer' = offer
    /\ UNCHANGED <<isAvailable, binDir, target, profiles, helper>>

\* run, lines 318-322 and 339: isInstalled has completed
InstallIsInstalled ==
    /\ run.kind = "install" /\ run.pc = "isInstalled"
    /\ \E lstat \in Outcomes(IF binDir = "missing" \/ target = "absent"
                             THEN "ENOENT" ELSE "ok") :
          LET r == isInstalled(lstat)
          IN run' = IF r.out # "resolved" THEN [run EXCEPT !.pc = "rejected", !.err = r.out]
                    ELSE IF ~isAvailable \/ r.val
                    THEN [run EXCEPT !.pc = "resolved", !.success = @ + 1]
                    ELSE [run EXCEPT !.pc = "unlink", !.attempt = 1]
    /\ UNCHANGED <<isAvailable, binDir, target, profiles, offer, helper>>

\* createSymlink, lines 324-325: pfs.unlink has completed
InstallUnlink ==
    /\ run.kind = "install" /\ run.pc = "unlink"
    /\ \E res \in Outcomes(unlinkResult) :
          LET r == [run EXCEPT !.unlinks = @ + 1]
          IN /\ target' = IF res = "ok" THEN "absent" ELSE target
             /\ run' = IF ignore("ENOENT", res) = "ok" THEN [r EXCEPT !.pc = "symlink"]
                       ELSE afterError(r, res)
    /\ UNCHANGED <<isAvailable, binDir, profiles, offer, helper>>

\* createSymlink, line 326, and line 339: pfs.symlink has completed
InstallSymlink ==
    /\ run.kind = "install" /\ run.pc = "symlink"
    /\ \E res \in Outcomes(symlinkResult) :
          LET r == [run EXCEPT !.symlinks = @ + 1]
          IN /\ target' = IF res = "ok" THEN "source" ELSE target
             /\ run' = IF res = "ok" THEN [r EXCEPT !.pc = "resolved", !.success = @ + 1]
                       ELSE afterError(r, res)
    /\ UNCHANGED <<isAvailable, binDir, profiles, offer, helper>>

\* createBinFolder has completed: mkdir -p /usr/local/bin && chown, or not
InstallCreateBinFolder ==
    /\ run.kind = "install" /\ run.pc = "createBinFolder"
    /\ \E ok \in BOOLEAN :
          /\ binDir' = IF ok THEN "writable" ELSE binDir
          /\ run' = IF ok THEN [run EXCEPT !.pc = "unlink", !.attempt = 2]
                    ELSE [run EXCEPT !.pc = "rejected", !.err = "cantCreateBinFolder"]
    /\ UNCHANGED <<isAvailable, target, profiles, offer, helper>>

\* the user takes the "Edit '{0}'" action of the warning: lines 301-311
OpenEditor ==
    /\ offer = "edit"
    /\ offer' = "retry"
    /\ UNCHANGED <<isAvailable, binDir, target, profiles, run, helper>>

\* the user (or anything else) rewrites, removes or creates a profile file
EditProfile(i, content) ==
    /\ profiles[i] # content
    /\ profiles' = [profiles EXCEPT ![i] = content]
    /\ UNCHANGED <<isAvailable, binDir, target, run, offer, helper>>

\* DarwinCLIHelper's constructor, lines 417-429
HelperCheck ==
    /\ isAvailable
    /\ helper = "new"
    /\ LET r == checkLegacy(profiles)
       IN helper' = IF r.out = "resolved" /\ Len(r.files) > 0 THEN "offered" ELSE "done"
    /\ UNCHANGED <<isAvailable, binDir, target, profiles, run, offer>>

\* UninstallAction.run is called
StartUninstall ==
    /\ isAvailable
    /\ run.pc \in Finished
    /\ run' = [NoRun EXCEPT !.kind = "uninstall", !.by = "user", !.pc = "unlink"]
    /\ UNCHANGED <<isAvailable, binDir, target, profiles, offer, helper>>

\* UninstallAction.run, lines 405-407: pfs.unlink has completed
UninstallUnlink ==
    /\ run.kind = "uninstall" /\ run.pc = "unlink"
    /\ \E res \in Outcomes(unlinkResult) :
          LET r == [run EXCEPT !.unlinks = @ + 1, !.err = res]
          IN /\ target' = IF res = "ok" THEN "absent" ELSE target
             /\ run' = IF ignore("ENOENT", res) = "ok"
                       THEN [r EXCEPT !.pc = "resolved", !.success = @ + 1]
                       ELSE [r EXCEPT !.pc = "rejected"]
    /\ UNCHANGED <<isAvailable, binDir, profiles, offer, helper>>

\* ------------------------------------------------------ DebugHoverWidget
MAX_ELEMENTS_SHOWN == 18
MaxSetInput == 1      \* tree.setInput promises in flight

Lines == {1, 2}
\* an expression: its variables reference, and whether it is available
Expressions == [reference : {0, 1}, available : BOOLEAN]
NoExpression == [reference |-> 0 - 1, available |-> FALSE]
\* the numbers of visible elements a tree comes to have
TreeCounts == {0, 1, MAX_ELEMENTS_SHOWN, MAX_ELEMENTS_SHOWN + 1}

Min(a, b) == IF a < b THEN a ELSE b

Widget ==
    [isVisible |-> isVisible, showAtPosition |-> showAtPosition,
     highlightDecorations |-> highlightDecorations, treeHidden |-> treeHidden,
     valueHidden |-> valueHidden, treeInput |-> treeInput, treeCount |-> treeCount,
     treeHeight |-> treeHeight, settingInput |-> settingInput, lastDoShow |-> lastDoShow,
     effects |-> [deltaDecorations |-> 0, layoutContentWidget |-> 0]]

SetWidget(w) ==
    /\ isVisible' = w.isVisible
    /\ showAtPosition' = w.showAtPosition
    /\ highlightDecorations' = w.highlightDecorations
    /\ treeHidden' = w.treeHidden
    /\ valueHidden' = w.valueHidden
    /\ treeInput' = w.treeInput
    /\ treeCount' = w.treeCount
    /\ treeHeight' = w.treeHeight
    /\ settingInput' = w.settingInput
    /\ lastDoShow' = w.lastDoShow
    /\ effects' = w.effects

HoverInit ==
    /\ isVisible = FALSE
    /\ showAtPosition = 0
    /\ highlightDecorations = 0
    /\ treeHidden = FALSE
    /\ valueHidden = FALSE
    /\ treeInput = NoExpression
    /\ treeCount = 0
    /\ treeHeight = 0
    /\ requests = {}
    /\ settingInput = 0
    /\ lastDoShow = 0
    /\ effects = [deltaDecorations |-> 0, layoutContentWidget |-> 0]
    /\ hret = [op |-> "new"]

\* this.editor.layoutContentWidget(this)
layoutContentWidget(w) == [w EXCEPT !.effects.layoutContentWidget = @ + 1]

\* this.editor.deltaDecorations(this.highlightDecorations, newDecorations):
\* the number of ids it returns
deltaDecorations(w, n) == [w EXCEPT !.effects.deltaDecorations = @ + 1]

doShowKeepingPosition(w, position, expression, forceValueHover) ==
    LET w1 == [w EXCEPT !.isVisible = TRUE, !.lastDoShow = position]
    IN IF expression.reference > 0 /\ ~forceValueHover
       THEN [w1 EXCEPT !.valueHidden = TRUE, !.treeHidden = FALSE,
                       !.treeInput = expression, !.settingInput = @ + 1]
       ELSE layoutContentWidget([w1 EXCEPT !.treeHidden = TRUE, !.valueHidden = FALSE])

doShowIgnoringForce(w, position, expression, forceValueHover) ==
    LET w1 == [w EXCEPT !.showAtPosition = position, !.isVisible = TRUE,
                        !.lastDoShow = position]
    IN IF expression.reference > 0
       THEN [w1 EXCEPT !.valueHidden = TRUE, !.treeHidden = FALSE,
                       !.treeInput = expression, !.settingInput = @ + 1]
       ELSE layoutContentWidget([w1 EXCEPT !.treeHidden = TRUE, !.valueHidden = FALSE])

\* doShow; the then-callbacks of tree.setInput are SetInputDone
doShow(w, position, expression, forceValueHover) ==
    LET w1 == [w EXCEPT !.showAtPosition = position, !.isVisible = TRUE,
                        !.lastDoShow = position]
    IN IF expression.reference > 0 /\ ~forceValueHover
       THEN [w1 EXCEPT !.valueHidden = TRUE, !.treeHidden = FALSE,
                       !.treeInput = expression, !.settingInput = @ + 1]
       ELSE layoutContentWidget([w1 EXCEPT !.treeHidden = TRUE, !.valueHidden = FALSE])

layoutTreeUncapped(w) ==
    LET visibleElementsCount == w.treeCount
    IN IF visibleElementsCount = 0
       THEN doShow(w, w.showAtPosition, w.treeInput, TRUE)
       ELSE [w EXCEPT !.treeHeight = visibleElementsCount * 18]

layoutTree(w) ==
    LET visibleElementsCount == w.treeCount
    IN IF visibleElementsCount = 0
       THEN doShow(w, w.showAtPosition, w.treeInput, TRUE)
       ELSE LET height == Min(visibleElementsCount, MAX_ELEMENTS_SHOWN) * 18
            IN IF w.treeHeight # height THEN [w EXCEPT !.treeHeight = height] ELSE w

hideAlways(w) ==
    LET w1 == deltaDecorations([w EXCEPT !.isVisible = FALSE], 0)
    IN layoutContentWidget([w1 EXCEPT !.highlightDecorations = 0])

hide(w) ==
    IF ~w.isVisible THEN w
    ELSE LET w1 == deltaDecorations([w EXCEPT !.isVisible = FALSE], 0)
         IN layoutContentWidget([w1 EXCEPT !.highlightDecorations = 0])

NullPosition == [position |-> 0, preference |-> <<>>]

getPosition(w) ==
    IF w.isVisible
    THEN [position |-> w.showAtPosition, preference |-> <<"ABOVE", "BELOW">>]
    ELSE NullPosition

\* showAt, lines 76-91: it returns early (proceed = FALSE) when nothing is
\* hovered, no stack frame is focused or the frame is of another resource;
\* otherwise it asks for the expression
ShowAt(pos, proceed) ==
    /\ requests' = IF proceed THEN requests \cup {pos} ELSE requests
    /\ SetWidget(Widget)
    /\ hret' = [op |-> "showAt"]

\* showAt, lines 91-110: getExpression has completed with expression
ExpressionDone(pos, expression) ==
    /\ pos \in requests
    /\ requests' = requests \ {pos}
    /\ LET w == IF expression = NoExpression \/ ~expression.available
                THEN hide(Widget)
                ELSE doShow([deltaDecorations(Widget, 1) EXCEPT !.highlightDecorations = 1],
                            pos, expression, FALSE)
       IN w.settingInput <= MaxSetInput /\ SetWidget(w)
    /\ hret' = [op |-> "showAtDone", pos |-> pos, expression |-> expression]

\* showAt, line 110: getExpression was rejected (errors.onUnexpectedError)
ExpressionFailed(pos) ==
    /\ pos \in requests
    /\ requests' = requests \ {pos}
    /\ SetWidget(Widget)
    /\ hret' = [op |-> "showAtFailed"]

\* doShow, line 161: tree.setInput was rejected (errors.onUnexpectedError)
SetInputFailed ==
    /\ settingInput > 0
    /\ SetWidget([Widget EXCEPT !.settingInput = @ - 1])
    /\ requests' = requests
    /\ hret' = [op |-> "setInputFailed"]

\* doShow, lines 159-161: tree.setInput has completed; the tree shows n elements
SetInputDone(n) ==
    /\ settingInput > 0
    /\ SetWidget(layoutContentWidget(
          layoutTree([Widget EXCEPT !.settingInput = @ - 1, !.treeCount = n])))
    /\ requests' = requests
    /\ hret' = [op |-> "setInputDone", n |-> n]

\* 'item:expanded' or 'item:collapsed': the tree now shows n elements
ItemToggled(n) ==
    /\ isVisible /\ ~treeHidden /\ settingInput = 0
    /\ treeCount > 0 /\ n > 0 /\ n # treeCount
    /\ SetWidget(layoutTree([Widget EXCEPT !.treeCount = n]))
    /\ requests' = requests
    /\ hret' = [op |-> "itemToggled", n |-> n]

Hide ==
    /\ SetWidget(hide(Widget))
    /\ requests' = requests
    /\ hret' = [op |-> "hide"]

GetPosition ==
    /\ SetWidget(Widget)
    /\ requests' = requests
    /\ hret' = [op |-> "getPosition", val |-> getPosition(Widget)]

\* ------------------------------------------ DebugHoverWidget.getExpression
MaxScopes == 2        \* scopes of the focused stack frame

\* a name is a sequence of words: some languages pass the type as part of it
TopVars == {1, 2, 3}
VarName == <<(<<"a">>), (<<"T", "a">>), (<<"c">>)>>
\* the children of the variables, by name
Kids == <<{<<"b">>, <<"T", "b">>}, {<<"T", "b">>, <<"c">>}, {}>>
\* the paths hovered: a, c, a.b
Paths == {<<"a">>, <<"c">>, <<"a", "b">>}

\* a scope: expensive or not; loaded: its getChildren promise is complete when
\* asked; vars: its children; kidsLoaded: so is that of the child descended into
Scopes == [expensive : BOOLEAN, loaded : BOOLEAN, vars : SUBSET TopVars,
           kidsLoaded : BOOLEAN]

\* a variable of a scope: a child of it (kid = <<>>), or a child of a child
Node(i, v, kid) == [scope |-> i, var |-> v, kid |-> kid]
NullExpression == Node(0, 0, <<>>)
\* what evaluateExpression resolves to
EvaluatedExpression == Node(0, 0, <<"evaluated">>)

nameOf(node) == IF node.kid = <<>> THEN VarName[node.var] ELSE node.kid

childrenOf(node) ==
    IF node.kid = <<>> THEN {Node(node.scope, node.var, k) : k \in Kids[node.var]} ELSE {}

\* namesToFind[i] === v.name || namesToFind[i] === v.name.substr(v.name.lastIndexOf(' ') + 1)
matchesName(name, n) == name = <<n>> \/ name[Len(name)] = n

\* the loop of lines 133-145 from level i on: what it pushes
RECURSIVE searchAnyMatch(_, _, _, _)
searchAnyMatch(children, names, i, kidsLoaded) ==
    LET filtered == {c \in children : matchesName(nameOf(c), names[i])}
    IN IF filtered = {} THEN <<>>
       ELSE LET f == CHOOSE c \in filtered : TRUE
            IN IF i = Len(names) THEN <<f>>
               ELSE IF kidsLoaded THEN searchAnyMatch(childrenOf(f), names, i + 1, kidsLoaded)
               ELSE <<>>

RECURSIVE search(_, _, _, _)
search(children, names, i, kidsLoaded) ==
    LET filtered == {c \in children : matchesName(nameOf(c), names[i])}
    IN IF Cardinality(filtered) # 1 THEN <<>>
       ELSE LET f == CHOOSE c \in filtered : TRUE
            IN IF i = Len(names) THEN <<f>>
               \* done(c => children = c, children = null): children stays
               \* null, and the loop ends, unless the promise is complete
               ELSE IF kidsLoaded THEN search(childrenOf(f), names, i + 1, kidsLoaded)
               ELSE <<>>

\* the callback of scope.getChildren(...).done for the scope at index i
scopeCallback(scs, i, names) ==
    search({Node(i, v, <<>>) : v \in scs[i].vars}, names, 1, scs[i].kidsLoaded)

\* .filter(scope => !scope.expensive)
notExpensive(scs) == {i \in DOMAIN scs : ~scs[i].expensive}

\* .map(scope => scope.getChildren(...).done(...)): the matches pushed before
\* map returns, from the scopes at index i and above
RECURSIVE pushedInMap(_, _, _)
pushedInMap(scs, i, names) ==
    IF i > Len(scs) THEN <<>>
    ELSE (IF i \in notExpensive(scs) /\ scs[i].loaded THEN scopeCallback(scs, i, names)
          ELSE <<>>) \o pushedInMap(scs, i + 1, names)

\* variables.length === 1 ? TPromise.as(variables[0]) : TPromise.as(null)
onlyMatch(vs) == IF Len(vs) = 1 THEN vs[1] ELSE NullExpression

ExprInit ==
    /\ xpc = "idle"
    /\ namesToFind = <<>>
    /\ scopes = <<>>
    /\ variables = <<>>
    /\ asked = {}
    /\ waiting = {}
    /\ xret = NullExpression

\* getExpression(namesToFind), lines 113-121
GetExpression(names, supportsEvaluateForHovers) ==
    /\ xpc \in {"idle", "done", "rejected"}
    /\ waiting = {}
    /\ namesToFind' = names
    /\ xpc' = IF supportsEvaluateForHovers THEN "evaluate" ELSE "getScopes"
    /\ scopes' = <<>>
    /\ variables' = <<>>
    /\ asked' = {}
    /\ waiting' = {}
    /\ xret' = NullExpression

\* evaluateExpression resolves
EvaluateDone(found) ==
    /\ xpc = "evaluate"
    /\ xpc' = "done"
    /\ xret' = IF found THEN EvaluatedExpression ELSE NullExpression
    /\ UNCHANGED <<namesToFind, scopes, variables, asked, waiting>>

\* getScopes resolves with scs: the then-callbacks of lines 121-149
ScopesResolved(scs) ==
    /\ xpc = "getScopes"
    /\ scopes' = scs
    /\ asked' = notExpensive(scs)
    /\ waiting' = {i \in notExpensive(scs) : ~scs[i].loaded}
    /\ variables' = pushedInMap(scs, 1, namesToFind)
    /\ xret' = onlyMatch(variables')
    /\ xpc' = "done"
    /\ UNCHANGED namesToFind

\* getScopes is rejected, and so is getExpression
ScopesFailed ==
    /\ xpc = "getScopes"
    /\ xpc' = "rejected"
    /\ UNCHANGED <<namesToFind, scopes, variables, asked, waiting, xret>>

\* the getChildren promise of a scope completes later: its callback
ChildrenLoaded(i) ==
    /\ i \in waiting
    /\ waiting' = waiting \ {i}
    /\ variables' = variables \o scopeCallback(scopes, i, namesToFind)
    /\ UNCHANGED <<xpc, namesToFind, scopes, asked, xret>>

\* ... or is rejected (errors.onUnexpectedError)
ChildrenFailed(i) ==
    /\ i \in waiting
    /\ waiting' = waiting \ {i}
    /\ UNCHANGED <<xpc, namesToFind, scopes, variables, asked, xret>>

\* ------------------------------------------------------ specifications
\* instantiation: the operations that create modes
ModeNext ==
    /\ \/ Completions
       \/ \E input \in Inputs : GetOrCreateMode(input)
       \/ \E n \in LanguageNames : GetOrCreateModeByLanguageName(n)
       \/ \E f \in Filenames : GetOrCreateModeByFilenameOrFirstLine(f)
       \/ \E input \in Inputs : GetMode(input)
       \/ \E m \in ModeIds, sup \in Supports : RegisterModeSupport(m, sup)
    /\ UNCHANGED <<cliVars, hoverVars, exprVars>>

\* configuration, and the queries
ConfigNext ==
    /\ \/ Completions
       \/ \E input \in Inputs : GetOrCreateMode(input)
       \/ \E m \in ModeIds, o \in Configs : ConfigureModeById(m, o)
       \/ \E input \in Inputs : GetModeId(input)
       \/ \E input \in Inputs : Lookup(input)
       \/ \E m \in ModeIds : GetConfigurationForMode(m)
       \/ \E tok \in Tokens : IsRegisteredMode(tok)
       \/ \E n \in LanguageNames : GetModeIdByLanguageName(n)
       \/ \E f \in Filenames : GetModeIdByFilenameOrFirstLine(f)
    /\ UNCHANGED <<cliVars, hoverVars, exprVars>>

\* the command line actions; one run() is in flight at a time
CliNext ==
    /\ \/ \E by \in {"user", "retry", "update"} : StartInstall(by)
       \/ InstallCheckLegacy
       \/ InstallIsInstalled
       \/ InstallUnlink
       \/ InstallSymlink
       \/ InstallCreateBinFolder
       \/ OpenEditor
       \/ \E i \in 1..Len(ProfileFiles), content \in FileContents : EditProfile(i, content)
       \/ HelperCheck
       \/ StartUninstall
       \/ UninstallUnlink
    /\ UNCHANGED <<modeVars, hoverVars, exprVars>>

\* the hover widget
HoverNext ==
    /\ \/ \E pos \in Lines, proceed \in BOOLEAN : ShowAt(pos, proceed)
       \/ \E pos \in Lines, e \in Expressions \cup {NoExpression} : ExpressionDone(pos, e)
       \/ \E pos \in Lines : ExpressionFailed(pos)
       \/ \E n \in TreeCounts : SetInputDone(n)
       \/ SetInputFailed
       \/ \E n \in TreeCounts : ItemToggled(n)
       \/ Hide
       \/ GetPosition
    /\ UNCHANGED <<modeVars, cliVars, exprVars>>

\* getExpression without evaluate-for-hovers: the search of the scopes
ExprNext ==
    /\ \/ \E names \in Paths, supports \in BOOLEAN : GetExpression(names, supports)
       \/ \E found \in BOOLEAN : EvaluateDone(found)
       \/ xpc = "getScopes" /\ \E scs \in SeqsUpTo(Scopes, MaxScopes) : ScopesResolved(scs)
       \/ ScopesFailed
       \/ \E i \in 1..MaxScopes : ChildrenLoaded(i)
       \/ \E i \in 1..MaxScopes : ChildrenFailed(i)
    /\ UNCHANGED <<modeVars, cliVars, hoverVars>>

\* a part that takes no step stays in one initial state of its own
ModeIdle == ModeInit /\ compatModes = {}

CliIdle == CliInit /\ isAvailable /\ binDir = "writable" /\ target = "absent"
                   /\ profiles = [i \in 1..Len(ProfileFiles) |-> "absent"]

Init == ModeInit /\ CliIdle /\ HoverInit /\ ExprInit

SpecMode == Init /\ [][ModeNext]_vars

SpecConfig == Init /\ [][ConfigNext]_vars

\* the command line actions, whatever /usr/local/bin and the profiles hold
InitCli == ModeIdle /\ CliInit /\ HoverInit /\ ExprInit

SpecCli == InitCli /\ [][CliNext]_vars

\* a new hover widget
InitHover == ModeIdle /\ CliIdle /\ HoverInit /\ ExprInit

SpecHover == InitHover /\ [][HoverNext]_vars

SpecExpression == InitHover /\ [][ExprNext]_vars

\* ------------------------------------------------------------- claims
ObjIds == 1..Len(objs)

\* C1: whatever the interleaving of getOrCreateMode, getOrCreateModeByLanguageName,
\* getOrCreateModeByFilenameOrFirstLine, getMode and registerModeSupport calls,
\* _createMode is entered at most once for a mode id, and all the callers whose
\* promise resolved for that id got the same mode object, the one in
\* _instantiatedModes.
CreateModeOnce ==
    /\ \A m \in ModeIds : created[m] <= 1
    /\ \A d \in delivered : d.obj = _instantiatedModes[d.id]
    /\ \A d1, d2 \in delivered : d1.id = d2.id => d1.obj = d2.obj

\* a compat mode was instantiated after callers of both kinds waited for it
CreateModeOnceWitness ==
    \E m \in compatModes :
       /\ created[m] = 1
       /\ _instantiatedModes[m] # 0
       /\ objs[_instantiatedModes[m]].supports = Supports
       /\ Cardinality({d \in delivered : d.id = m}) >= 2

\* C2: getModeId returns the first of the mode ids extracted from the list,
\* null when none is extracted; 'text/html,text/plain' gives 'html'.
GetModeIdIsFirst ==
    ret.op = "getModeId" =>
       /\ ret.val = IF extractModeIds(ret.arg) = <<>> THEN null
                    ELSE Head(extractModeIds(ret.arg))
       /\ ret.arg = <<"text/html", "text/plain">> => ret.val = "html"
       /\ ret.arg = <<"x">> => ret.val = null

GetModeIdIsFirstWitness ==
    ret.op = "getModeId" /\ ret.arg = <<"text/html", "text/plain">> /\ ret.val = "html"

QueriesInstantiateNothing ==
    /\ \A m \in ModeIds : _instantiatedModes[m] = 0
    /\ [][ret'.op \in QueryOps =>
            UNCHANGED <<_instantiatedModes, _activationPromises, _frankensteinModes>>]_vars
    /\ [](ret.op = "lookup" =>
            \A i \in DOMAIN ret.val :
               ret.val[i].isInstantiated <=> _instantiatedModes[ret.val[i].modeId] # 0)

\* lookup of an id whose activation is pending says: not instantiated
QueriesInstantiateNothingWitness ==
    /\ ret.op = "lookup"
    /\ \E i \in DOMAIN ret.val :
          /\ ~ret.val[i].isInstantiated
          /\ _activationPromises[ret.val[i].modeId] = "pending"

\* C5: a mode id without compat mode data has at most one mode object, its
\* FrankensteinMode, and every support registered for it through
\* registerModeSupport is registered on that object.
OneFrankensteinMode ==
    \A m \in ModeIds \ compatModes :
       /\ Cardinality({o \in ObjIds : objs[o].id = m}) <= 1
       /\ \A o \in ObjIds :
             objs[o].id = m => objs[o].kind = "frankenstein" /\ o = _frankensteinModes[m]
       /\ ret.op = "registerModeSupport" /\ ret.arg[1] = m =>
             /\ _frankensteinModes[m] # 0
             /\ ret.arg[2] \in objs[_frankensteinModes[m]].supports

\* both supports were registered, one after the other, on the one mode
OneFrankensteinModeWitness ==
    \E m \in ModeIds \ compatModes :
       /\ _frankensteinModes[m] # 0
       /\ objs[_frankensteinModes[m]].supports = Supports

\* C6 as stated: two configureModeById calls in a row with the same options call
\* configSupport.configure at most once between them.
ConfigureTwiceCallsOnce ==
    ret.op = "configureModeById" /\ ret.again => ret.before + calls <= 1

\* C6 as amended: a configureModeById call whose options, mixed into the
\* stored configuration, change nothing leaves _config and the modes alone and
\* calls configure on no mode; so the second of two calls in a row with the
\* same options never calls configure.
ConfigureNoOp ==
    /\ [][(/\ ret'.op = "configureModeById"
           /\ equals(_config[ret'.arg[1]], mixin(_config[ret'.arg[1]], ret'.arg[2])))
          => _config' = _config /\ objs' = objs /\ calls' = 0]_vars
    /\ [](ret.op = "configureModeById" /\ ret.again => calls = 0)

\* the first call configured an instantiated mode, the second did nothing
ConfigureNoOpWitness ==
    ret.op = "configureModeById" /\ ret.again /\ ret.before = 1 /\ calls = 0

\* C7: an install run that found no legacy alias: once it has resolved, the
\* target is a symbolic link to source and the success message was shown
\* once; the message is never shown while the target is anything else; a
\* rejected run has shown no success message.
InstallLinksThenReports ==
    run.kind = "install" /\ run.files = <<>> /\ isAvailable =>
       /\ run.pc = "resolved" => target = "source" /\ run.success = 1
       /\ run.success > 0 => target = "source" /\ run.success = 1 /\ run.pc = "resolved"
       /\ run.pc = "rejected" => run.success = 0

\* the link was made at the second attempt, after createBinFolder
InstallLinksThenReportsWitness ==
    /\ run.kind = "install" /\ run.pc = "resolved" /\ run.attempt = 2
    /\ run.success = 1 /\ target = "source"

\* C8: a run whose checkLegacy reported files warns about the first of them,
\* calls neither unlink nor symlink, shows no success message and leaves
\* the target alone -- whoever started the run.
LegacyAliasStopsInstall ==
    /\ run.kind = "install" /\ Len(run.files) > 0 =>
          /\ run.warned = run.files[1]
          /\ run.unlinks = 0 /\ run.symlinks = 0 /\ run.success = 0
          /\ run.pc = "resolved"
    /\ run.kind = "install" /\ (run.unlinks > 0 \/ run.symlinks > 0 \/ run.success > 0) =>
          run.files = <<>> /\ run.warned = "-"

\* a run started by 'Retry' found the alias still there
LegacyAliasStopsInstallWitness ==
    /\ run.kind = "install" /\ run.by = "retry" /\ run.pc = "resolved"
    /\ run.warned = "~/.bashrc" /\ Len(run.files) = 2

\* C9: an uninstall run that resolved has shown the success message once and
\* the target is gone, whether unlink succeeded or failed with ENOENT; a
\* run whose unlink failed otherwise is rejected without the message.
UninstallIgnoresMissing ==
    run.kind = "uninstall" /\ run.pc # "unlink" =>
       IF run.err \in {"ok", "ENOENT"}
       THEN run.pc = "resolved" /\ run.success = 1 /\ target = "absent"
       ELSE run.pc = "rejected" /\ run.success = 0

\* the target was missing, and uninstall reported success all the same
UninstallIgnoresMissingWitness ==
    /\ run.kind = "uninstall" /\ run.pc = "resolved"
    /\ run.err = "ENOENT" /\ run.success = 1 /\ binDir # "missing"

\* C10: getPosition returns null exactly when the widget is not visible, and
\* otherwise the position of the last doShow with the preference ABOVE,
\* BELOW; a new widget is not visible.
PositionIffVisible ==
    /\ hret.op = "new" => ~isVisible /\ getPosition(Widget) = NullPosition
    /\ hret.op = "getPosition" =>
          /\ hret.val = NullPosition <=> ~isVisible
          /\ isVisible => /\ hret.val.position = lastDoShow
                          /\ hret.val.position \in Lines
                          /\ hret.val.preference = <<"ABOVE", "BELOW">>

\* the widget was shown at one line, then at another, and returns the latter
PositionIffVisibleWitness ==
    /\ hret.op = "getPosition"
    /\ isVisible
    /\ hret.val = [position |-> 2, preference |-> <<"ABOVE", "BELOW">>]
    /\ treeHidden

NoEffects == [deltaDecorations |-> 0, layoutContentWidget |-> 0]

\* C11: hide on a widget that is not visible calls neither deltaDecorations
\* nor layoutContentWidget and leaves isVisible, showAtPosition and
\* highlightDecorations as they were; hide on a visible widget makes it not
\* visible, removes the decorations and relayouts once.
HideOnlyWhenVisible ==
    [][hret'.op = "hide" =>
          IF isVisible
          THEN /\ ~isVisible'
               /\ highlightDecorations' = 0
               /\ showAtPosition' = showAtPosition
               /\ effects' = [deltaDecorations |-> 1, layoutContentWidget |-> 1]
          ELSE /\ effects' = NoEffects
               /\ UNCHANGED <<isVisible, showAtPosition, highlightDecorations>>]_vars

\* hide was called on a widget that had been shown and hidden before
HideOnlyWhenVisibleWitness ==
    /\ hret.op = "hide"
    /\ ~isVisible
    /\ showAtPosition # 0
    /\ effects = NoEffects

\* C12 as stated: without evaluate-for-hovers, getExpression resolves to a
\* variable only if exactly one match was found over all the non-expensive
\* scopes (null for none and for two or more), and no expensive scope is asked
\* for its children.
ExpressionOnlyIfOneMatch ==
    /\ asked \subseteq notExpensive(scopes)
    /\ xpc = "done" /\ waiting = {} /\ xret \notin {NullExpression, EvaluatedExpression}
          => Len(variables) = 1

\* the children of the variables of scope i that match names[1]
TopMatches(i) == {v \in scopes[i].vars : matchesName(VarName[v], namesToFind[1])}

\* C16: a variable is collected from a scope only as the one match of the last
\* name among the children reached through the one match of each name before
\* it; a scope in which some level has no match or several contributes
\* nothing, and no scope contributes twice; a scope whose children are all
\* there and whose levels each have one match contributes that match.
PathSearch ==
    /\ \A k \in DOMAIN variables :
          LET n == variables[k]
          IN /\ n.scope \in asked
             /\ TopMatches(n.scope) = {n.var}
             /\ Len(namesToFind) = 1 => n.kid = <<>>
             /\ Len(namesToFind) = 2 =>
                   /\ scopes[n.scope].kidsLoaded
                   /\ {c \in Kids[n.var] : matchesName(c, namesToFind[2])} = {n.kid}
             /\ \A j \in DOMAIN variables : j # k => variables[j].scope # n.scope
    /\ \A i \in asked :
          (/\ scopes[i].loaded /\ scopes[i].kidsLoaded
           /\ \E v \in TopVars :
                 /\ TopMatches(i) = {v}
                 /\ Len(namesToFind) = 2 =>
                       Cardinality({c \in Kids[v] : matchesName(c, namesToFind[2])}) = 1)
          => \E k \in DOMAIN variables : variables[k].scope = i

\* for a.b, 'T b' of 'T a' was collected: both matched by their last word
PathSearchWitness ==
    /\ namesToFind = <<"a", "b">>
    /\ \E k \in DOMAIN variables :
          variables[k].var = 2 /\ variables[k].kid = <<"T", "b">>

\* C13: the main thread enters _createMode for a mode id, or registers a
\* support for it, only after an instantiateMode request for that id has been
\* sent to the worker; so every mode id that is instantiated or pending on
\* the main thread has had its request.
WorkerToldFirst ==
    /\ unannounced = {}
    /\ \A m \in ModeIds :
          (\/ _instantiatedModes[m] # 0
           \/ _activationPromises[m] # "absent"
           \/ _frankensteinModes[m] # 0
           \/ created[m] > 0) => m \in instantiateModeRequests
    /\ ret.op = "registerModeSupport" => ret.arg[1] \in instantiateModeRequests

\* a compat mode is pending and a Frankenstein mode instantiated, both told
WorkerToldFirstWitness ==
    /\ instantiateModeRequests = ModeIds
    /\ \E m \in compatModes : _activationPromises[m] = "pending"
    /\ \E m \in ModeIds \ compatModes : _instantiatedModes[m] # 0

\* C14: every _createMode fires the activation event of its mode id once; a
\* compat mode is created, configured and entered into _instantiatedModes
\* only once the activation has resolved, and never when it failed; a
\* Frankenstein mode is instantiated at once, whatever becomes of the
\* activation.
ActivationThenCompatMode ==
    \A m \in ModeIds :
       /\ fired[m] = created[m]
       /\ m \in compatModes =>
             /\ (\/ _instantiatedModes[m] # 0
                 \/ stage[m] = "instantiating"
                 \/ \E o \in ObjIds : objs[o].id = m) => event[m] = "resolved"
             /\ event[m] = "failed" =>
                   /\ _activationPromises[m] = "rejected"
                   /\ _instantiatedModes[m] = 0
             /\ \A o \in ObjIds :
                   objs[o].id = m /\ objs[o].hasConfigSupport => objs[o].configured # <<>>
       /\ m \notin compatModes /\ created[m] > 0 =>
             /\ _instantiatedModes[m] # 0
             /\ _instantiatedModes[m] = _frankensteinModes[m]
             /\ event[m] \in {"pending", "resolved", "failed"}

\* a Frankenstein mode stays though its activation failed, next to a compat
\* mode created and configured after its activation
ActivationThenCompatModeWitness ==
    /\ \E m \in ModeIds \ compatModes : event[m] = "failed" /\ _instantiatedModes[m] # 0
    /\ \E m \in compatModes :
          /\ _instantiatedModes[m] # 0
          /\ objs[_instantiatedModes[m]].configured # <<>>

\* C15 as stated: getMode returns the mode of the first listed id that is
\* instantiated; otherwise it starts a creation only when 'plaintext' is
\* listed, and the mode it then returns is the plaintext mode; with no listed
\* id instantiated and 'plaintext' not listed it returns no mode and starts no
\* creation; and a mode getMode(x) returns is the mode getOrCreateMode(x)
\* resolves to, that of the first listed id.
GetModeAgreesWithGetOrCreateMode ==
    ret.op = "getMode" =>
       LET ids == ret.ids
           listed == {ids[j] : j \in DOMAIN ids}
       IN /\ ~ret.began /\ (\E j \in DOMAIN ids : _instantiatedModes[ids[j]] # 0) =>
                \E j \in DOMAIN ids :
                   /\ ret.val = _instantiatedModes[ids[j]] /\ ret.val # 0
                   /\ \A k \in 1..(j - 1) : _instantiatedModes[ids[k]] = 0
          /\ ret.began => "plaintext" \in listed
          /\ ret.began /\ ret.val # 0 => objs[ret.val].id = "plaintext"
          /\ "plaintext" \notin listed /\ (\A j \in DOMAIN ids : _instantiatedModes[ids[j]] = 0)
                => ret.val = 0 /\ ~ret.began
          /\ ret.val # 0 => objs[ret.val].id = OrPlainText(IF ids = <<>> THEN null ELSE ids[1])

\* C17: after a doShow exactly one of the two containers is hidden: the tree
\* is shown iff the expression's reference is > 0 and forceValueHover is
\* false, the value otherwise; and the widget is visible at the position given.
DoShowShowsOneView ==
    /\ lastDoShow # 0 => treeHidden # valueHidden
    /\ hret.op = "showAtDone" /\ hret.expression.available =>
          /\ isVisible /\ showAtPosition = hret.pos /\ lastDoShow = hret.pos
          /\ ~treeHidden <=> hret.expression.reference > 0
          /\ ~valueHidden <=> ~(hret.expression.reference > 0)
    /\ hret.op = "setInputDone" /\ hret.n = 0 =>
          /\ isVisible /\ showAtPosition = lastDoShow
          /\ treeHidden /\ ~valueHidden

\* the tree of an expression with children turned out empty: layoutTree
\* showed the value instead (forceValueHover)
DoShowShowsOneViewWitness ==
    /\ hret.op = "setInputDone" /\ hret.n = 0
    /\ treeInput.reference > 0
    /\ isVisible /\ treeHidden /\ ~valueHidden

\* C18: layoutTree makes the tree min(visible elements, 18) * 18 pixels high,
\* never more than 324; with no visible element it shows the value through
\* doShow(..., true), which sets no tree input and so does not come back to
\* layoutTree.
TreeHeightCapped ==
    /\ [](treeHeight <= 324)
    /\ [](hret.op \in {"setInputDone", "itemToggled"} /\ hret.n > 0 =>
             treeHeight = IF hret.n < 18 THEN hret.n * 18 ELSE 324)
    /\ [][hret'.op = "setInputDone" /\ hret'.n = 0 =>
             /\ settingInput' = settingInput - 1
             /\ treeHeight' = treeHeight
             /\ treeHidden']_vars

\* more elements than fit: the height is that of 18
TreeHeightCappedWitness ==
    hret.op = "itemToggled" /\ hret.n = MAX_ELEMENTS_SHOWN + 1 /\ treeHeight = 324

\* C19: checkLegacy reports exactly the profile files whose content holds the
\* bundle identifier, in the order ~/.bash_profile, ~/.bashrc, ~/.zshrc; a
\* missing file counts as empty; a file that cannot be read for another
\* reason rejects the check; and the check writes to no file.
CheckLegacyReports ==
    /\ [][run.pc = "checkLegacy" /\ run'.pc # "checkLegacy" =>
            /\ UNCHANGED <<profiles, target, binDir>>
            /\ IF \E i \in DOMAIN profiles : profiles[i] = "unreadable"
               THEN run'.pc = "rejected" /\ run'.files = <<>>
               ELSE /\ run'.pc # "rejected"
                    /\ \A i \in DOMAIN profiles :
                          profiles[i] = "legacy" <=>
                             \E j \in DOMAIN run'.files : run'.files[j] = ProfileFiles[i]
                    /\ \A j, k \in DOMAIN run'.files :
                          j < k => \E a, b \in DOMAIN ProfileFiles :
                                      /\ a < b
                                      /\ ProfileFiles[a] = run'.files[j]
                                      /\ ProfileFiles[b] = run'.files[k]]_vars
    /\ [][helper = "new" /\ helper' # "new" =>
            /\ UNCHANGED <<profiles, target, binDir>>
            /\ helper' = "offered" <=>
                  /\ \A i \in DOMAIN profiles : profiles[i] # "unreadable"
                  /\ \E i \in DOMAIN profiles : profiles[i] = "legacy"]_vars

\* the first and the third file hold the alias, the second does not exist
CheckLegacyReportsWitness ==
    /\ run.kind = "install"
    /\ run.files = <<"~/.bash_profile", "~/.zshrc">>
    /\ profiles = <<"legacy", "absent", "legacy">>

\* C20 as stated: when _createMode is rejected for a mode id, every caller
\* waiting for the id is rejected, the id does not get into
\* _instantiatedModes, and its entry in _activationPromises is cleared, so
\* that no rejected promise stays there for later callers.
RejectionClearsActivation ==
    \A m \in ModeIds :
       /\ (\E r \in rejected : r.id = m) => _instantiatedModes[m] = 0
       /\ _activationPromises[m] = "rejected" => waiters[m] = {}
       /\ _activationPromises[m] # "rejected"

\* C21: no mode id is in _instantiatedModes and in _activationPromises at
\* once, and the entry of a mode id in _instantiatedModes, once there, is
\* neither removed nor replaced.
InstantiatedForGood ==
    /\ [](\A m \in ModeIds :
             ~(_instantiatedModes[m] # 0 /\ _activationPromises[m] # "absent"))
    /\ [][\A m \in ModeIds :
             _instantiatedModes[m] # 0 => _instantiatedModes'[m] = _instantiatedModes[m]]_vars

\* a compat mode that was pending is instantiated, its promise gone, and
\* callers came for it before and after; the other mode is still pending
InstantiatedForGoodWitness ==
    \E m \in compatModes :
       /\ _instantiatedModes[m] # 0
       /\ _activationPromises[m] = "absent"
       /\ Cardinality({d \in delivered : d.id = m}) >= 2
       /\ \E n \in ModeIds \ {m} : _activationPromises[n] = "pending"

\* C22: configuration is not lost across instantiation: whenever a compat
\* mode with configSupport is instantiated and no call is running, the last
\* argument given to its configSupport.configure is the configuration that
\* getConfigurationForMode returns for its id, whether configureModeById
\* was called before, during or after the activation.
ConfigurationNeverLost ==
    \A m \in compatModes :
       (_instantiatedModes[m] # 0 /\ objs[_instantiatedModes[m]].hasConfigSupport)
          => objs[_instantiatedModes[m]].configured = <<_config[m]>>

\* a compat mode was configured by configureModeById while it was not yet
\* instantiated: configure was called once only, by _createMode, with the
\* options stored before
ConfigurationNeverLostWitness ==
    \E m \in compatModes :
       /\ _instantiatedModes[m] # 0
       /\ objs[_instantiatedModes[m]].hasConfigSupport
       /\ _config[m] # EmptyConfig
       /\ objs[_instantiatedModes[m]].configured = <<_config[m]>>
       /\ calls = 1

====
